---- MODULE Spec2Model ----
(***************************************************************************)
(* Model of the signaling and matchmaking server of random-video-chat-app  *)
(* (src/server.js): the Redis-backed waiting queue (rvchat:queue), the     *)
(* pair hash (rvchat:pairs), the Socket.IO event handlers join, next,      *)
(* leave, signal, report and disconnect, the admission middleware and the  *)
(* ban list (banIP / unbanIP) on several server instances.                 *)
(*                                                                         *)
(* Every handler is an async function.  Each `await` of a Redis command or *)
(* of fetchSockets() is a suspension point, so a handler is modelled as a  *)
(* sequence of steps: one step executes the awaited operation atomically   *)
(* and then runs the synchronous code that follows it (emits included) up  *)
(* to the next await.  Steps of different handlers interleave freely.      *)
(***************************************************************************)
EXTENDS Integers, Sequences, FiniteSets, TLC

\* ------------------------------------------------------------------ bounds
\* Number of connection ids (socket.id values) of the model.
NumConns == 3
\* Handlers of one connection that may be in flight (or finished and not yet
\* retired) at the same time.
MaxInFlight == 2
\* Number of times the clock advances by one cooldown period.
MaxTicks == 1
\* Number of events that may be dispatched while another handler is in flight.
MaxOverlaps == 1
\* Number of shared-store commands that are rejected in one behaviour.
MaxFailures == 1
\* Number of report records appended in one behaviour.
MaxReports == 6
\* Longest sequence of arbitrary ids behind the run of skipped ids in the
\* queues handed to popValidWaiting.
MaxTail == 2
\* How far below and above MAX_ATTEMPTS the length of that run goes.
AroundCap == 2
\* Number of server instances behind the load balancer.
NumInstances == 2

\* --------------------------------------------------------- program constants
NEXT_COOLDOWN_MS == 1000
MAX_ATTEMPTS == 50
SIGNAL_LIMIT == 50000
AUTO_BAN_THRESHOLD == 5
REASON_LIMIT == 500

\* Connection ids; None stands for null / undefined (every falsy id).
Conns == 1 .. NumConns
None == 0

\* Server instances; every connection is owned by one of them.
Instances == 1 .. NumInstances

\* The remote addresses of the model.  NoIP stands for undefined.
IPs == {"ipX", "ipY"}
NoIP == "undefined"

\* The address the middleware reads from the handshake of connection id: the
\* first connection comes from one address, all others from a second one.
IPOf(id) == IF id = 1 THEN "ipY" ELSE "ipX"

\* The instance the load balancer hands connection id to: the last
\* connection is on the second instance, all others on the first.
InstanceOf(id) == IF id = NumConns THEN NumInstances ELSE 1

\* An instance whose start-up has finished long ago.
LongUp == [pc |-> "up", redisConnected |-> TRUE, found |-> {}]

\* No call of banIP or unbanIP is in flight.
NoRequest == [op |-> "none", ip |-> NoIP, inst |-> 0, pc |-> "none", by |-> None]

\* Date.now() when the server starts accepting events: any value that is at
\* least one cooldown period after the epoch (nextRateLimits defaults to 0).
StartTime == NEXT_COOLDOWN_MS

\* Signal payloads a client may send: two well-formed objects, an object whose
\* JSON text is longer than the limit, and a value that is not an object.
NoSignal == [body |-> "none", isObject |-> FALSE, size |-> 0]
Signals ==
    { [body |-> "sdp", isObject |-> TRUE, size |-> 20],
      [body |-> "candidate", isObject |-> TRUE, size |-> SIGNAL_LIMIT],
      [body |-> "huge", isObject |-> TRUE, size |-> SIGNAL_LIMIT + 1],
      [body |-> "text", isObject |-> FALSE, size |-> 4] }

\* Report reasons a client may send: a value that is not a string, the empty
\* string, and strings of 1, REASON_LIMIT and REASON_LIMIT + 1 characters.
NoReason == [isString |-> FALSE, length |-> 0]
Reasons ==
    { NoReason,
      [isString |-> TRUE, length |-> 0],
      [isString |-> TRUE, length |-> 1],
      [isString |-> TRUE, length |-> REASON_LIMIT],
      [isString |-> TRUE, length |-> REASON_LIMIT + 1] }

VARIABLES
    queue,           \* Redis LIST rvchat:queue: sequence of connection ids
    pairs,           \* Redis HASH rvchat:pairs: id -> partner id, None = no field
    sockets,         \* ids of the sockets currently connected (cluster-wide)
    status,          \* per id: "fresh" (not yet connected), "rejected" (refused by the
                     \* middleware), "open", "closed", "banned" (closed after a banned event)
    handlers,        \* per id: the handlers of that connection, in start order
    now,             \* Date.now()
    nextRateLimits,  \* Map id -> time of the last accepted next, 0 = no entry
    obtainedBy,      \* history: per id W, the callers that popped W and had it returned by
                     \* popValidWaiting since W was last pushed, unpaired or closed
    snap,            \* history: shared state when the running handler was dispatched (sequential runs)
    overlaps,        \* history: number of events dispatched while another handler was in flight
    failures,        \* history: number of shared-store commands rejected so far
    banned_ips,      \* Redis SET rvchat:banned_ips
    ban_details,     \* the ips that have a Redis HASH rvchat:ban_details:<ip>
    reports,         \* per ip: length of the Redis LIST rvchat:reports:<ip>
    bannedIPs,       \* per instance: the Set bannedIPs of that process
    request,         \* the call of banIP or unbanIP in flight, NoRequest when there is none
    boot             \* per instance: how far its start-up is, its flag redisConnected, and
                     \* (history) the shared ban set it found when the process started

vars ==
    <<queue, pairs, sockets, status, handlers, now, nextRateLimits, obtainedBy, snap, overlaps,
      failures, banned_ips, ban_details, reports, bannedIPs, request, boot>>

\* ------------------------------------------------------------ pure helpers
\* Faulty variant of LRem: nothing is removed.
LRemNothing(q, id) == q

\* LREM key 0 id: remove every occurrence of id.
LRem(q, id) == SelectSeq(q, LAMBDA x : x # id)

\* RPUSH key id.
RPush(q, id) == Append(q, id)

\* Faulty variant of LPop: RPOP, which takes the id at the tail.
RPop(q) == [id |-> q[Len(q)], rest |-> SubSeq(q, 1, Len(q) - 1)]

\* LPOP key on a non-empty list: the id returned and the list left.
LPop(q) == [id |-> Head(q), rest |-> Tail(q)]

\* Number of occurrences of id in q.
Count(q, id) == Cardinality({i \in 1 .. Len(q) : q[i] = id})

\* Ids occurring in q.
QueueIds(q) == {q[i] : i \in 1 .. Len(q)}

\* HSET rvchat:pairs {a: b, b: a}; the later field wins when a = b.
HSetPair(p, a, b) == [x \in Conns |-> IF x = b THEN a ELSE IF x = a THEN b ELSE p[x]]

\* Faulty variant of HDel: the field is left in the hash.
HDelNothing(p, id) == p

\* HDEL rvchat:pairs id.
HDel(p, id) == [p EXCEPT ![id] = None]

\* Faulty variant of SRem: the whole set is emptied.
SRemAll(set, member) == {}

\* SREM key member.
SRem(set, member) == set \ {member}

\* An outbound event as delivered to connection `to`.
Msg(to, type, peerId, initiator, signal) ==
    [to |-> to, type |-> type, peerId |-> peerId, initiator |-> initiator, signal |-> signal]

Plain(to, type) == Msg(to, type, None, FALSE, NoSignal)

\* io.to(id).emit(...) / socket.emit(...): the event reaches the socket of `to`
\* when it is connected; an emit to an empty room delivers nothing.
Deliver(out, m) == IF m.to \in sockets THEN Append(out, m) ELSE out

\* The record of a handler invocation: its position and its local variables
\* (and two history fields: requeued, the id it popped was pushed again since;
\* failed, the shared-store command of this handler that was rejected).
NewHandler(kind, pc) ==
    [kind |-> kind, pc |-> pc, partnerId |-> None, caller |-> None, init |-> TRUE,
     attempts |-> 0, popped |-> None, target |-> None, after |-> "none",
     peerId |-> None, signal |-> NoSignal, out |-> <<>>, requeued |-> FALSE,
     failed |-> "none", peerIP |-> NoIP, reportCount |-> 0, reason |-> NoReason]

\* Handlers of connection id that have not completed.
Running(id) == {i \in 1 .. Len(handlers[id]) : handlers[id][i].pc # "done"}

\* No handler of any connection is in flight or waiting to be retired.
Quiescent == \A id \in Conns : handlers[id] = <<>>

\* The shared state a handler finds when its event is dispatched.
Snapshot ==
    [queue |-> queue, pairs |-> pairs, sockets |-> sockets,
     now |-> now, nextRateLimits |-> nextRateLimits,
     reports |-> reports, banned_ips |-> banned_ips,
     ban_details |-> ban_details, bannedIPs |-> bannedIPs]
NoSnapshot ==
    [queue |-> <<>>, pairs |-> [x \in Conns |-> None], sockets |-> {},
     now |-> 0, nextRateLimits |-> [x \in Conns |-> 0],
     reports |-> [ip \in IPs \cup {NoIP} |-> 0], banned_ips |-> {},
     ban_details |-> {}, bannedIPs |-> [inst \in Instances |-> {}]]

\* ----------------------------------------------------------------- Init
Init ==
    /\ queue = <<>>
    /\ pairs = [x \in Conns |-> None]
    /\ sockets = {}
    /\ status = [x \in Conns |-> "fresh"]
    /\ handlers = [x \in Conns |-> <<>>]
    /\ now = StartTime
    /\ nextRateLimits = [x \in Conns |-> 0]
    /\ obtainedBy = [x \in Conns |-> {}]
    /\ snap = NoSnapshot
    /\ overlaps = 0
    /\ failures = 0
    /\ banned_ips = {}
    /\ ban_details = {}
    /\ reports = [ip \in IPs \cup {NoIP} |-> 0]
    /\ bannedIPs = [inst \in Instances |-> {}]
    /\ request = NoRequest
    /\ boot = [inst \in Instances |-> LongUp]

\* The handler i of connection id becomes h.
SetHandler(id, i, h) == handlers' = [handlers EXCEPT ![id][i] = h]

\* A new handler of connection id is appended to its handlers.
AddHandler(id, h) == handlers' = [handlers EXCEPT ![id] = Append(@, h)]

\* The handler i of connection id exists and is about to execute step pc.
At(id, i, pc) == i \in 1 .. Len(handlers[id]) /\ handlers[id][i].pc = pc

\* --------------------------------------------------- decisions of the code
\* Faulty variant of IsExcluded: the popped id is never compared with excludeId.
NotExcluded(id, excludeId) == FALSE

\* popValidWaiting: `if (excludeId && id === excludeId) continue;`
IsExcluded(id, excludeId) == excludeId # None /\ id = excludeId

\* popValidWaiting: `sockets.length > 0` for io.in(id).fetchSockets().
IsConnected(id) == id \in sockets

\* Faulty variant of MayAttempt: one more pop than the cap allows.
MayAttemptOnceMore(attempts) == attempts <= MAX_ATTEMPTS

\* popValidWaiting: `while (attempts < MAX_ATTEMPTS)`.
MayAttempt(attempts) == attempts < MAX_ATTEMPTS

\* Faulty variant of InCooldown: a next exactly one period later is rejected too.
InCooldownInclusive(t, lastNext) == t - lastNext <= NEXT_COOLDOWN_MS

\* next: `now - lastNext < NEXT_COOLDOWN_MS`.
InCooldown(t, lastNext) == t - lastNext < NEXT_COOLDOWN_MS

\* signal: the payload checks made before the pair registry is read.
SignalWellFormed(peerId, signal) ==
    /\ peerId # None
    /\ signal.isObject
    /\ ~(signal.size > SIGNAL_LIMIT)

\* Faulty variant of MayRelay: the partner check is missing.
RelayAlways(partner, peerId) == TRUE

\* signal: `if (partner !== peerId) return;` negated.
MayRelay(partner, peerId) == partner = peerId

\* Faulty variant of AlreadyPaired: the pair entry is ignored.
NeverPaired(current) == FALSE

\* join: `if (current) return;`.
AlreadyPaired(current) == current # None

\* Where a handler continues when tryMatchNow returns.
AfterTryMatch(kind) == IF kind = "disconnect" THEN "dc_remove" ELSE "done"

\* Faulty variant of AfterNoPartner: a next without partner only leaves the queue.
NoPartnerLeaves(kind) == IF kind = "disconnect" THEN "dc_remove" ELSE "lv_remove"

\* Where a handler continues when clearPair found no partner to dissolve.
AfterNoPartner(kind) ==
    CASE kind = "next" -> "nx_remove"
      [] kind = "leave" -> "lv_remove"
      [] OTHER -> "dc_remove"

\* Faulty variant of NotifyAfterClear: only the partner is ever notified.
NotifyPartnerOnly(kind, out, id, partnerId) ==
    Deliver(out, Plain(partnerId, "partner-disconnected"))

\* The events sent after clearPair(id, partnerId) returned {a: id, b: partnerId}.
NotifyAfterClear(kind, out, id, partnerId) ==
    IF kind = "disconnect"
    THEN Deliver(out, Plain(partnerId, "partner-disconnected"))
    ELSE Deliver(Deliver(out, Plain(id, "partner-disconnected")),
                 Plain(partnerId, "partner-disconnected"))

\* ------------------------------------------------------- connection events
\* The admission middleware of an instance: `bannedIPs.has(ip)`.
Rejects(inst, ip) == ip \in bannedIPs[inst]

\* A handshake arrives at the instance of id: the middleware rejects it, or
\* io.on("connection") gets a new socket with a fresh id.
Connect(id) ==
    /\ status[id] = "fresh"
    /\ IF Rejects(InstanceOf(id), IPOf(id))
       THEN /\ status' = [status EXCEPT ![id] = "rejected"]
            /\ UNCHANGED sockets
       ELSE /\ status' = [status EXCEPT ![id] = "open"]
            /\ sockets' = sockets \cup {id}
    /\ UNCHANGED <<queue, pairs, handlers, now, nextRateLimits, obtainedBy>>

\* socket.on("join"): runs up to `await getPartner(id)`.
Join(id) ==
    /\ status[id] = "open"
    /\ AddHandler(id, NewHandler("join", "getPartner"))
    /\ UNCHANGED <<queue, pairs, sockets, status, now, nextRateLimits, obtainedBy>>

\* socket.on("next"): the rate limit check, then up to `await getPartner(id)`.
NextEv(id) ==
    /\ status[id] = "open"
    /\ IF InCooldown(now, nextRateLimits[id])
       THEN /\ AddHandler(id, [NewHandler("next", "done") EXCEPT
                   !.out = Deliver(<<>>, Plain(id, "error"))])
            /\ UNCHANGED nextRateLimits
       ELSE /\ AddHandler(id, NewHandler("next", "getPartner"))
            /\ nextRateLimits' = [nextRateLimits EXCEPT ![id] = now]
    /\ UNCHANGED <<queue, pairs, sockets, status, now, obtainedBy>>

\* socket.on("leave"): runs up to `await getPartner(id)`.
Leave(id) ==
    /\ status[id] = "open"
    /\ AddHandler(id, NewHandler("leave", "getPartner"))
    /\ UNCHANGED <<queue, pairs, sockets, status, now, nextRateLimits, obtainedBy>>

\* socket.on("signal"): input validation, then up to `await getPartner(id)`.
Signal(id, peerId, signal) ==
    /\ status[id] = "open"
    /\ AddHandler(id, [NewHandler("signal",
                         IF SignalWellFormed(peerId, signal) THEN "sg_getPartner" ELSE "done")
                       EXCEPT !.peerId = peerId, !.signal = signal])
    /\ UNCHANGED <<queue, pairs, sockets, status, now, nextRateLimits, obtainedBy>>

\* The socket closes and socket.on("disconnect") runs up to `await getPartner(id)`.
Disconnect(id) ==
    /\ status[id] = "open"
    /\ status' = [status EXCEPT ![id] = "closed"]
    /\ sockets' = sockets \ {id}
    /\ AddHandler(id, NewHandler("disconnect", "getPartner"))
    /\ obtainedBy' = [obtainedBy EXCEPT ![id] = {}]
    /\ UNCHANGED <<queue, pairs, now, nextRateLimits>>

\* The disconnect listener of a connection that is already closed runs once
\* more (the cleanup run a second time).
DisconnectAgain(id) ==
    /\ status[id] = "closed"
    /\ AddHandler(id, NewHandler("disconnect", "getPartner"))
    /\ UNCHANGED <<queue, pairs, sockets, status, now, nextRateLimits, obtainedBy>>

\* Time passes: one cooldown period.
Tick ==
    /\ now < StartTime + MaxTicks * NEXT_COOLDOWN_MS
    /\ now' = now + NEXT_COOLDOWN_MS
    /\ UNCHANGED <<queue, pairs, sockets, status, handlers, nextRateLimits, obtainedBy>>

\* The instants, after the start, around each whole cooldown period: one
\* millisecond before it, at it and one millisecond after it.
Times == {StartTime + k * NEXT_COOLDOWN_MS + d : k \in 1 .. MaxTicks, d \in {0 - 1, 0, 1}}

\* Time passes up to the instant t.
TickTo(t) ==
    /\ t > now
    /\ now' = t
    /\ UNCHANGED <<queue, pairs, sockets, status, handlers, nextRateLimits, obtainedBy>>

\* A completed handler is forgotten.
Retire(id, i) ==
    /\ At(id, i, "done")
    /\ handlers' = [handlers EXCEPT ![id] =
           SubSeq(@, 1, i - 1) \o SubSeq(@, i + 1, Len(@))]
    /\ UNCHANGED <<queue, pairs, sockets, status, now, nextRateLimits, obtainedBy>>

\* ---------------------------------------------------------- handler steps
\* `await getPartner(id)` (HGET) at the head of join, next, leave and disconnect.
GetPartner(id, i) ==
    /\ At(id, i, "getPartner")
    /\ LET h == handlers[id][i]
           partner == pairs[id]
       IN  SetHandler(id, i,
             IF h.kind = "join"
             THEN IF AlreadyPaired(partner)
                  THEN [h EXCEPT !.pc = "done"]
                  ELSE [h EXCEPT !.pc = "tm_remove", !.caller = id, !.init = TRUE]
             ELSE IF partner # None
                  THEN [h EXCEPT !.pc = "cp_hDelA", !.partnerId = partner]
                  ELSE [h EXCEPT !.pc = AfterNoPartner(h.kind)])
    /\ UNCHANGED <<queue, pairs, sockets, status, now, nextRateLimits, obtainedBy>>

\* clearPair(id, partnerId): the first HDEL, of the caller's own field.
ClearPairA(id, i) ==
    /\ At(id, i, "cp_hDelA")
    /\ pairs' = HDel(pairs, id)
    /\ obtainedBy' = [obtainedBy EXCEPT ![id] = {}]
    /\ SetHandler(id, i, [handlers[id][i] EXCEPT !.pc = "cp_hDelB"])
    /\ UNCHANGED <<queue, sockets, status, now, nextRateLimits>>

\* clearPair(id, partnerId): the second HDEL, of the partner's field; then the
\* partner-disconnected events, up to `await io.in(partnerId).fetchSockets()`.
ClearPairB(id, i) ==
    /\ At(id, i, "cp_hDelB")
    /\ LET h == handlers[id][i]
       IN  /\ pairs' = HDel(pairs, h.partnerId)
           /\ obtainedBy' = [obtainedBy EXCEPT ![h.partnerId] = {}]
           /\ SetHandler(id, i, [h EXCEPT !.pc = "fetchPartner",
                                  !.out = NotifyAfterClear(h.kind, h.out, id, h.partnerId)])
    /\ UNCHANGED <<queue, sockets, status, now, nextRateLimits>>

\* `await io.in(partnerId).fetchSockets()` of next, leave and disconnect: the
\* partner is requeued when it is still connected.
FetchPartner(id, i) ==
    /\ At(id, i, "fetchPartner")
    /\ LET h == handlers[id][i]
           caller == IF h.kind = "disconnect" THEN h.partnerId ELSE id
           cont == IF h.kind = "leave" THEN "lv_remove" ELSE "tm_remove"
       IN  SetHandler(id, i,
             IF IsConnected(h.partnerId)
             THEN [h EXCEPT !.pc = "enq_lRem", !.target = h.partnerId, !.after = cont,
                            !.caller = caller, !.init = (h.kind # "disconnect")]
             ELSE IF h.kind = "disconnect"
                  THEN [h EXCEPT !.pc = "dc_remove"]
                  ELSE [h EXCEPT !.pc = cont, !.caller = caller, !.init = TRUE])
    /\ UNCHANGED <<queue, pairs, sockets, status, now, nextRateLimits, obtainedBy>>

\* next, not paired: `await removeFromQueue(id)`, then tryMatchNow(id, true).
NextRemove(id, i) ==
    /\ At(id, i, "nx_remove")
    /\ queue' = LRem(queue, id)
    /\ SetHandler(id, i, [handlers[id][i] EXCEPT !.pc = "tm_remove", !.caller = id, !.init = TRUE])
    /\ UNCHANGED <<pairs, sockets, status, now, nextRateLimits, obtainedBy>>

\* tryMatchNow: `await removeFromQueue(callerId)`, then into popValidWaiting.
TryMatchRemove(id, i) ==
    /\ At(id, i, "tm_remove")
    /\ queue' = LRem(queue, handlers[id][i].caller)
    /\ SetHandler(id, i, [handlers[id][i] EXCEPT !.pc = "pv_pop", !.attempts = 0, !.popped = None])
    /\ UNCHANGED <<pairs, sockets, status, now, nextRateLimits, obtainedBy>>

\* The handler after popValidWaiting returned null: enqueue(callerId) begins.
EnqueueCaller(h) == [h EXCEPT !.pc = "enq_lRem", !.target = h.caller, !.after = "tm_return", !.popped = None]

\* The handler after the id it popped was skipped in popValidWaiting's loop.
PopAgain(h, attempts, skipped) ==
    IF MayAttempt(attempts)
    THEN [h EXCEPT !.pc = "pv_pop", !.attempts = attempts, !.popped = skipped,
                   !.requeued = FALSE]
    ELSE EnqueueCaller([h EXCEPT !.attempts = attempts, !.requeued = FALSE])

\* popValidWaiting: `attempts++; const id = await pubClient.lPop(QUEUE_KEY)`.
PopWaiting(id, i) ==
    /\ At(id, i, "pv_pop")
    /\ LET h == handlers[id][i]
           attempts == h.attempts + 1
       IN  IF queue = <<>>
           THEN /\ queue' = queue
                /\ SetHandler(id, i, EnqueueCaller([h EXCEPT !.attempts = attempts]))
           ELSE /\ queue' = LPop(queue).rest
                /\ SetHandler(id, i,
                     IF IsExcluded(LPop(queue).id, h.caller)
                     THEN PopAgain(h, attempts, LPop(queue).id)
                     ELSE [h EXCEPT !.pc = "pv_fetch", !.attempts = attempts,
                                    !.popped = LPop(queue).id, !.requeued = FALSE])
    /\ UNCHANGED <<pairs, sockets, status, now, nextRateLimits, obtainedBy>>

\* popValidWaiting: `await io.in(id).fetchSockets()`: a connected id is the
\* candidate, a stale one is skipped.
FetchPopped(id, i) ==
    /\ At(id, i, "pv_fetch")
    /\ LET h == handlers[id][i]
       IN  IF IsConnected(h.popped)
           THEN /\ SetHandler(id, i, [h EXCEPT !.pc = "tm_setPaired"])
                /\ obtainedBy' = [obtainedBy EXCEPT ![h.popped] =
                       IF h.requeued THEN @ ELSE @ \cup {h.caller}]
           ELSE /\ SetHandler(id, i, PopAgain(h, h.attempts, None))
                /\ UNCHANGED obtainedBy
    /\ UNCHANGED <<queue, pairs, sockets, status, now, nextRateLimits>>

\* tryMatchNow: `await setPaired(callerId, candidate)` and the two paired events.
SetPaired(id, i) ==
    /\ At(id, i, "tm_setPaired")
    /\ LET h == handlers[id][i]
           candidate == h.popped
       IN  /\ pairs' = HSetPair(pairs, h.caller, candidate)
           /\ SetHandler(id, i, [h EXCEPT !.pc = AfterTryMatch(h.kind),
                !.out = Deliver(Deliver(h.out,
                           Msg(h.caller, "paired", candidate, h.init, NoSignal)),
                           Msg(candidate, "paired", h.caller, ~h.init, NoSignal))])
    /\ UNCHANGED <<queue, sockets, status, now, nextRateLimits, obtainedBy>>

\* enqueue(id): `await pubClient.lRem(QUEUE_KEY, 0, id)`.
EnqueueLRem(id, i) ==
    /\ At(id, i, "enq_lRem")
    /\ queue' = LRem(queue, handlers[id][i].target)
    /\ SetHandler(id, i, [handlers[id][i] EXCEPT !.pc = "enq_rPush"])
    /\ UNCHANGED <<pairs, sockets, status, now, nextRateLimits, obtainedBy>>

\* enqueue(id): `await pubClient.rPush(QUEUE_KEY, id)` and the waiting event;
\* enqueue returns to its caller.
EnqueueRPush(id, i) ==
    /\ At(id, i, "enq_rPush")
    /\ LET h == handlers[id][i]
           returned == [h EXCEPT
                !.pc = IF h.after = "tm_return" THEN AfterTryMatch(h.kind) ELSE h.after,
                !.target = None, !.after = "none",
                !.out = Deliver(h.out, Plain(h.target, "waiting"))]
       IN  /\ queue' = RPush(queue, h.target)
           /\ obtainedBy' = [obtainedBy EXCEPT ![h.target] = {}]
           /\ handlers' = [c \in Conns |-> [j \in 1 .. Len(handlers[c]) |->
                  IF c = id /\ j = i THEN returned
                  ELSE IF handlers[c][j].popped = h.target
                       THEN [handlers[c][j] EXCEPT !.requeued = TRUE]
                       ELSE handlers[c][j]]]
    /\ UNCHANGED <<pairs, sockets, status, now, nextRateLimits>>

\* leave: `await removeFromQueue(id)` and the left event.
LeaveRemove(id, i) ==
    /\ At(id, i, "lv_remove")
    /\ queue' = LRem(queue, id)
    /\ SetHandler(id, i, [handlers[id][i] EXCEPT !.pc = "done",
                           !.out = Deliver(@, Plain(id, "left"))])
    /\ UNCHANGED <<pairs, sockets, status, now, nextRateLimits, obtainedBy>>

\* disconnect: `await removeFromQueue(id)` and nextRateLimits.delete(id).
DisconnectRemove(id, i) ==
    /\ At(id, i, "dc_remove")
    /\ queue' = LRem(queue, id)
    /\ nextRateLimits' = [nextRateLimits EXCEPT ![id] = 0]
    /\ SetHandler(id, i, [handlers[id][i] EXCEPT !.pc = "done"])
    /\ UNCHANGED <<pairs, sockets, status, now, obtainedBy>>

\* signal: `await getPartner(id)`, the partner check and the relay.
SignalRelay(id, i) ==
    /\ At(id, i, "sg_getPartner")
    /\ LET h == handlers[id][i]
       IN  SetHandler(id, i, [h EXCEPT !.pc = "done",
             !.out = IF MayRelay(pairs[id], h.peerId)
                     THEN Deliver(h.out, Msg(h.peerId, "signal", id, FALSE, h.signal))
                     ELSE h.out])
    /\ UNCHANGED <<queue, pairs, sockets, status, now, nextRateLimits, obtainedBy>>

\* ------------------------------------------- rejected shared-store commands
\* The commands that reject into the try block of the listener: HGET of
\* getPartner, the HDELs of clearPair, LPOP of popValidWaiting, HSET of setPaired.
ThrowingSteps == {"getPartner", "cp_hDelA", "cp_hDelB", "pv_pop", "tm_setPaired"}

\* The calls of removeFromQueue, whose own catch keeps the rejection.
RemoveSteps == {"nx_remove", "tm_remove", "lv_remove", "dc_remove"}

\* The two commands of enqueue, whose own catch keeps the rejection.
EnqueueSteps == {"enq_lRem", "enq_rPush"}

\* The catch block of a listener: join and next emit error, leave and
\* disconnect only log.
Caught(id, h) ==
    [h EXCEPT !.pc = "done", !.failed = h.pc,
              !.out = IF h.kind \in {"join", "next"}
                      THEN Deliver(h.out, Plain(id, "error"))
                      ELSE h.out]

\* A command rejects and the exception reaches the listener's catch block.
\* clearPair sends both HDELs at once, so when the first is rejected the
\* second may have been applied or not.
FailThrown(id, i) ==
    /\ \E pc \in ThrowingSteps : At(id, i, pc)
    /\ LET h == handlers[id][i]
       IN  /\ SetHandler(id, i, Caught(id, h))
           /\ IF h.pc = "cp_hDelA"
              THEN \E applied \in BOOLEAN :
                      pairs' = IF applied THEN HDel(pairs, h.partnerId) ELSE pairs
              ELSE pairs' = pairs
    /\ UNCHANGED <<queue, sockets, status, now, nextRateLimits, obtainedBy>>

\* The LREM of removeFromQueue rejects: removeFromQueue logs and returns, and
\* its caller goes on as if the id had been removed.
FailRemove(id, i) ==
    /\ \E pc \in RemoveSteps : At(id, i, pc)
    /\ LET h == handlers[id][i]
       IN  /\ SetHandler(id, i,
                CASE h.pc = "nx_remove" ->
                       [h EXCEPT !.pc = "tm_remove", !.caller = id, !.init = TRUE,
                                 !.failed = h.pc]
                  [] h.pc = "tm_remove" ->
                       [h EXCEPT !.pc = "pv_pop", !.attempts = 0, !.popped = None,
                                 !.failed = h.pc]
                  [] h.pc = "lv_remove" ->
                       [h EXCEPT !.pc = "done", !.failed = h.pc,
                                 !.out = Deliver(@, Plain(id, "left"))]
                  [] OTHER -> [h EXCEPT !.pc = "done", !.failed = h.pc])
           /\ nextRateLimits' = IF h.pc = "dc_remove"
                                THEN [nextRateLimits EXCEPT ![id] = 0]
                                ELSE nextRateLimits
    /\ UNCHANGED <<queue, pairs, sockets, status, now, obtainedBy>>

\* LREM or RPUSH of enqueue rejects: enqueue logs and returns without the
\* push (when LREM rejected) and without the waiting event.
FailEnqueue(id, i) ==
    /\ \E pc \in EnqueueSteps : At(id, i, pc)
    /\ LET h == handlers[id][i]
       IN  SetHandler(id, i, [h EXCEPT
                !.pc = IF h.after = "tm_return" THEN AfterTryMatch(h.kind) ELSE h.after,
                !.target = None, !.after = "none", !.failed = h.pc])
    /\ UNCHANGED <<queue, pairs, sockets, status, now, nextRateLimits, obtainedBy>>

\* ------------------------------------------------------- reports and bans
\* The `ip` property of the object that fetchSockets(), called on instance
\* inst, yields for the socket id.  The middleware sets `socket.ip` on the
\* Socket object of the owning instance; for a socket of another instance
\* the adapter yields a RemoteSocket (id, handshake, rooms, data), on which
\* the property is undefined.
SocketIP(inst, id) == IF InstanceOf(id) = inst THEN IPOf(id) ELSE NoIP

\* The variables of matchmaking.
matching == <<queue, pairs, sockets, status, now, nextRateLimits, obtainedBy>>

\* Faulty variant of ReasonValid: one character more than the limit passes.
ReasonValidOneMore(reason) ==
    reason.isString /\ reason.length > 0 /\ ~(reason.length > REASON_LIMIT + 1)

\* report: `!reason || typeof reason !== "string" || reason.length > 500`
\* negated (the empty string is falsy).
ReasonValid(reason) ==
    reason.isString /\ reason.length > 0 /\ ~(reason.length > REASON_LIMIT)

\* socket.on("report"): the validation of peerId and reason, then up to
\* `await getPartner(id)`.
Report(id, peerId, reason) ==
    /\ status[id] = "open"
    /\ AddHandler(id,
          IF peerId = None \/ ~ReasonValid(reason)
          THEN [NewHandler("report", "done") EXCEPT
                   !.peerId = peerId, !.reason = reason,
                   !.out = Deliver(<<>>, Plain(id, "error"))]
          ELSE [NewHandler("report", "rp_getPartner") EXCEPT
                   !.peerId = peerId, !.reason = reason])
    /\ UNCHANGED matching

\* report: `await getPartner(id)` and `if (partner !== peerId)`.
ReportGetPartner(id, i) ==
    /\ At(id, i, "rp_getPartner")
    /\ LET h == handlers[id][i]
       IN  SetHandler(id, i,
             IF pairs[id] # h.peerId
             THEN [h EXCEPT !.pc = "done", !.out = Deliver(h.out, Plain(id, "error"))]
             ELSE [h EXCEPT !.pc = "rp_fetch"])
    /\ UNCHANGED matching

\* report: `await io.in(peerId).fetchSockets()` and `peerSockets[0].ip`.
ReportFetch(id, i) ==
    /\ At(id, i, "rp_fetch")
    /\ LET h == handlers[id][i]
       IN  SetHandler(id, i,
             IF ~IsConnected(h.peerId)
             THEN [h EXCEPT !.pc = "done"]
             ELSE [h EXCEPT !.pc = "rp_rPush",
                            !.peerIP = SocketIP(InstanceOf(id), h.peerId)])
    /\ UNCHANGED matching

\* report: `await pubClient.rPush(reportKey, reportData)` and the EXPIRE
\* that follows it (the expiry itself, 24 hours later, is outside the model).
ReportRPush(id, i) ==
    /\ At(id, i, "rp_rPush")
    /\ reports' = [reports EXCEPT ![handlers[id][i].peerIP] = @ + 1]
    /\ SetHandler(id, i, [handlers[id][i] EXCEPT !.pc = "rp_lLen"])
    /\ UNCHANGED matching
    /\ UNCHANGED <<banned_ips, ban_details, bannedIPs, request>>

\* banIP(ip, reason) up to `await pubClient.sAdd(...)`, on instance inst,
\* called by the report handler of connection `by` or by POST /admin/ban.
StartBan(inst, ip, by) ==
    /\ bannedIPs' = [bannedIPs EXCEPT ![inst] = @ \cup {ip}]
    /\ request' = [op |-> "ban", ip |-> ip, inst |-> inst, pc |-> "sAdd", by |-> by]

\* report: `await pubClient.lLen(reportKey)` and the threshold check; banIP
\* returns at once for an undefined ip.
ReportLLen(id, i) ==
    /\ At(id, i, "rp_lLen")
    /\ LET h == handlers[id][i]
           reportCount == reports[h.peerIP]
       IN  IF reportCount >= AUTO_BAN_THRESHOLD /\ h.peerIP # NoIP
           THEN /\ StartBan(InstanceOf(id), h.peerIP, id)
                /\ SetHandler(id, i, [h EXCEPT !.pc = "rp_ban", !.reportCount = reportCount])
           ELSE /\ SetHandler(id, i, [h EXCEPT !.pc = "done", !.reportCount = reportCount,
                                       !.out = Deliver(h.out, Plain(id, "report-submitted"))])
                /\ UNCHANGED <<bannedIPs, request>>
    /\ UNCHANGED matching
    /\ UNCHANGED <<banned_ips, ban_details, reports>>

\* POST /admin/ban on instance inst, with a valid ip.
AdminBan(inst, ip) ==
    /\ request = NoRequest
    /\ StartBan(inst, ip, None)
    /\ UNCHANGED matching
    /\ UNCHANGED <<handlers, banned_ips, ban_details, reports>>

\* banIP: `await pubClient.sAdd("rvchat:banned_ips", ip)`.
BanSAdd ==
    /\ request.pc = "sAdd"
    /\ banned_ips' = banned_ips \cup {request.ip}
    /\ request' = [request EXCEPT !.pc = "hSet"]
    /\ UNCHANGED matching
    /\ UNCHANGED <<handlers, ban_details, reports, bannedIPs>>

\* banIP: `await pubClient.hSet("rvchat:ban_details:<ip>", ...)`.
BanHSet ==
    /\ request.pc = "hSet"
    /\ ban_details' = ban_details \cup {request.ip}
    /\ request' = [request EXCEPT !.pc = "fetchSockets"]
    /\ UNCHANGED matching
    /\ UNCHANGED <<handlers, banned_ips, reports, bannedIPs>>

\* banIP: `await io.fetchSockets()` and the forEach: every socket whose ip
\* property equals ip is sent banned and disconnected, which starts its
\* disconnect listener.
BanClose ==
    /\ request.pc = "fetchSockets"
    /\ LET hit == {c \in sockets : SocketIP(request.inst, c) = request.ip}
       IN  /\ sockets' = sockets \ hit
           /\ status' = [c \in Conns |-> IF c \in hit THEN "banned" ELSE status[c]]
           /\ handlers' = [c \in Conns |->
                  IF c \in hit
                  THEN Append(handlers[c], NewHandler("disconnect", "getPartner"))
                  ELSE handlers[c]]
           /\ obtainedBy' = [c \in Conns |-> IF c \in hit THEN {} ELSE obtainedBy[c]]
    /\ request' = [request EXCEPT !.pc = "done"]
    /\ UNCHANGED <<queue, pairs, now, nextRateLimits>>
    /\ UNCHANGED <<banned_ips, ban_details, reports, bannedIPs>>

\* POST /admin/unban on instance inst, with a valid ip: unbanIP(ip) up to
\* `await pubClient.sRem(...)`.
AdminUnban(inst, ip) ==
    /\ request = NoRequest
    /\ bannedIPs' = [bannedIPs EXCEPT ![inst] = @ \ {ip}]
    /\ request' = [op |-> "unban", ip |-> ip, inst |-> inst, pc |-> "sRem", by |-> None]
    /\ UNCHANGED matching
    /\ UNCHANGED <<handlers, banned_ips, ban_details, reports>>

\* unbanIP: `await pubClient.sRem("rvchat:banned_ips", ip)`.
UnbanSRem ==
    /\ request.pc = "sRem"
    /\ banned_ips' = SRem(banned_ips, request.ip)
    /\ request' = [request EXCEPT !.pc = "del"]
    /\ UNCHANGED matching
    /\ UNCHANGED <<handlers, ban_details, reports, bannedIPs>>

\* unbanIP: `await pubClient.del("rvchat:ban_details:<ip>")`.
UnbanDel ==
    /\ request.pc = "del"
    /\ ban_details' = ban_details \ {request.ip}
    /\ request' = [request EXCEPT !.pc = "done"]
    /\ UNCHANGED matching
    /\ UNCHANGED <<handlers, banned_ips, reports, bannedIPs>>

\* banIP or unbanIP returns: the admin endpoint answers, or the report
\* handler that called banIP emits report-submitted and completes.
Return ==
    /\ request.pc = "done"
    /\ request' = NoRequest
    /\ IF request.by = None
       THEN UNCHANGED handlers
       ELSE LET id == request.by
                i == CHOOSE j \in 1 .. Len(handlers[id]) : handlers[id][j].pc = "rp_ban"
            IN  SetHandler(id, i, [handlers[id][i] EXCEPT !.pc = "done",
                     !.out = Deliver(@, Plain(id, "report-submitted"))])
    /\ UNCHANGED matching
    /\ UNCHANGED <<banned_ips, ban_details, reports, bannedIPs>>

Slots == 1 .. MaxInFlight

\* Some handler has completed and is not yet retired.
SomeDone == \E id \in Conns : \E i \in 1 .. Len(handlers[id]) : handlers[id][i].pc = "done"

\* The ban list, the report log and the count of rejected commands are left alone.
Rest == UNCHANGED <<failures, banned_ips, ban_details, reports, bannedIPs, request, boot>>

\* The history variables of the runs are left alone.
Keep == UNCHANGED <<snap, overlaps>> /\ Rest

\* One step of some handler of join, next, leave or disconnect in flight.  A
\* completed handler is retired before anything else happens.
MatchSteps ==
    \/ \E id \in Conns, i \in Slots : ~SomeDone /\ GetPartner(id, i) /\ Keep
    \/ \E id \in Conns, i \in Slots : ~SomeDone /\ ClearPairA(id, i) /\ Keep
    \/ \E id \in Conns, i \in Slots : ~SomeDone /\ ClearPairB(id, i) /\ Keep
    \/ \E id \in Conns, i \in Slots : ~SomeDone /\ FetchPartner(id, i) /\ Keep
    \/ \E id \in Conns, i \in Slots : ~SomeDone /\ NextRemove(id, i) /\ Keep
    \/ \E id \in Conns, i \in Slots : ~SomeDone /\ TryMatchRemove(id, i) /\ Keep
    \/ \E id \in Conns, i \in Slots : ~SomeDone /\ PopWaiting(id, i) /\ Keep
    \/ \E id \in Conns, i \in Slots : ~SomeDone /\ FetchPopped(id, i) /\ Keep
    \/ \E id \in Conns, i \in Slots : ~SomeDone /\ SetPaired(id, i) /\ Keep
    \/ \E id \in Conns, i \in Slots : ~SomeDone /\ EnqueueLRem(id, i) /\ Keep
    \/ \E id \in Conns, i \in Slots : ~SomeDone /\ EnqueueRPush(id, i) /\ Keep
    \/ \E id \in Conns, i \in Slots : ~SomeDone /\ LeaveRemove(id, i) /\ Keep
    \/ \E id \in Conns, i \in Slots : ~SomeDone /\ DisconnectRemove(id, i) /\ Keep

\* An event may be dispatched: while another handler is in flight only as long
\* as the bound on overlapping dispatches allows it.
MayDispatch == ~SomeDone /\ (Quiescent \/ overlaps < MaxOverlaps)

Dispatched ==
    /\ overlaps' = (IF Quiescent THEN overlaps ELSE overlaps + 1)
    /\ UNCHANGED snap
    /\ Rest

\* Socket.IO calls the async listener of every inbound event as the event
\* arrives, whether or not an earlier handler of that connection has returned.
MayStart(id) == MayDispatch /\ Len(handlers[id]) < MaxInFlight

\* The server as it is.
Next ==
    \/ \E id \in Conns : ~SomeDone /\ Connect(id) /\ Keep
    \/ \E id \in Conns : MayStart(id) /\ Join(id) /\ Dispatched
    \/ \E id \in Conns : MayStart(id) /\ NextEv(id) /\ Dispatched
    \/ \E id \in Conns : MayStart(id) /\ Leave(id) /\ Dispatched
    \/ \E id \in Conns : MayStart(id) /\ Disconnect(id) /\ Dispatched
    \/ MatchSteps
    \/ \E id \in Conns, i \in Slots : Retire(id, i) /\ Keep

Spec == Init /\ [][Next]_vars

\* A client that sends an event, or closes, only after the handler of its
\* previous event has completed.
MayStartSerial(id) == MayDispatch /\ handlers[id] = <<>>

\* The server with such clients: only handlers of different connections overlap.
NextSerial ==
    \/ \E id \in Conns : ~SomeDone /\ Connect(id) /\ Keep
    \/ \E id \in Conns : MayStartSerial(id) /\ Join(id) /\ Dispatched
    \/ \E id \in Conns : MayStartSerial(id) /\ NextEv(id) /\ Dispatched
    \/ \E id \in Conns : MayStartSerial(id) /\ Leave(id) /\ Dispatched
    \/ \E id \in Conns : MayStartSerial(id) /\ Disconnect(id) /\ Dispatched
    \/ MatchSteps
    \/ \E id \in Conns, i \in Slots : Retire(id, i) /\ Keep

SpecSerial == Init /\ [][NextSerial]_vars

\* The shared state is recorded when an event is dispatched with no handler in flight.
Recorded == snap' = Snapshot /\ UNCHANGED overlaps /\ Rest

\* The server with one handler at a time: an event is dispatched only when no
\* handler is in flight, so that every handler runs without interleaving.
SeqMatch ==
    \/ \E id \in Conns : Quiescent /\ Connect(id) /\ Keep
    \/ \E id \in Conns : Quiescent /\ Join(id) /\ Recorded
    \/ \E id \in Conns : Quiescent /\ NextEv(id) /\ Recorded
    \/ \E id \in Conns : Quiescent /\ Leave(id) /\ Recorded
    \/ \E id \in Conns : Quiescent /\ Disconnect(id) /\ Recorded
    \/ MatchSteps
    \/ \E id \in Conns, i \in Slots : Retire(id, i) /\ snap' = NoSnapshot /\ UNCHANGED overlaps /\ Rest

NextSeq ==
    \/ SeqMatch
    \/ \E id \in Conns, peerId \in Conns \cup {None}, signal \in Signals :
          Quiescent /\ Signal(id, peerId, signal) /\ Recorded
    \/ \E id \in Conns, i \in Slots : SignalRelay(id, i) /\ Keep
    \/ Quiescent /\ Tick /\ Keep

SpecSeq == Init /\ [][NextSeq]_vars

\* One handler at a time, with a clock that stops just before, at and just
\* after every whole cooldown period.
NextClock ==
    \/ SeqMatch
    \/ \E t \in Times : Quiescent /\ TickTo(t) /\ Keep

SpecClock == Init /\ [][NextClock]_vars

\* One handler at a time, where the disconnect cleanup of a closed connection
\* may be run again.
NextTwice ==
    \/ SeqMatch
    \/ \E id \in Conns : Quiescent /\ DisconnectAgain(id) /\ Recorded

SpecTwice == Init /\ [][NextTwice]_vars

\* One handler at a time, where a command of the shared store may be rejected.
Rejected ==
    /\ failures < MaxFailures
    /\ failures' = failures + 1
    /\ UNCHANGED <<snap, overlaps, banned_ips, ban_details, reports, bannedIPs, request, boot>>

NextFail ==
    \/ SeqMatch
    \/ \E id \in Conns, i \in Slots : ~SomeDone /\ FailThrown(id, i) /\ Rejected
    \/ \E id \in Conns, i \in Slots : ~SomeDone /\ FailRemove(id, i) /\ Rejected
    \/ \E id \in Conns, i \in Slots : ~SomeDone /\ FailEnqueue(id, i) /\ Rejected

SpecFail == Init /\ [][NextFail]_vars

\* No handler and no call of banIP or unbanIP is in flight.
Idle == Quiescent /\ request = NoRequest

\* Number of report records appended so far.
TotalReports == reports["ipX"] + reports["ipY"] + reports[NoIP]

\* The history variables are left alone by a step on the ban list or the report log.
Hist == UNCHANGED <<snap, overlaps, failures, boot>>

\* The shared state is recorded when an admin request arrives.
Noted == snap' = Snapshot /\ UNCHANGED <<overlaps, failures, boot>>

\* The record of the shared state is dropped when an admin request is answered.
Forgotten == snap' = NoSnapshot /\ UNCHANGED <<overlaps, failures, boot>>

\* A handler may take a step: the synchronous return of banIP comes before
\* any step of the disconnect listeners that banIP started.
MayStep == ~SomeDone /\ request = NoRequest

\* One handler or admin request at a time, on NumInstances instances:
\* connections join, and an administrator bans and unbans addresses.
NextBan ==
    \/ \E id \in Conns : Idle /\ Connect(id) /\ Keep
    \/ \E id \in Conns : Idle /\ Join(id) /\ Recorded
    \/ \E id \in Conns : Idle /\ Disconnect(id) /\ Recorded
    \/ \E inst \in Instances, ip \in IPs : Idle /\ AdminBan(inst, ip) /\ Noted
    \/ \E inst \in Instances, ip \in IPs : Idle /\ AdminUnban(inst, ip) /\ Noted
    \/ \E id \in Conns, i \in Slots : MayStep /\ GetPartner(id, i) /\ Keep
    \/ \E id \in Conns, i \in Slots : MayStep /\ ClearPairA(id, i) /\ Keep
    \/ \E id \in Conns, i \in Slots : MayStep /\ ClearPairB(id, i) /\ Keep
    \/ \E id \in Conns, i \in Slots : MayStep /\ FetchPartner(id, i) /\ Keep
    \/ \E id \in Conns, i \in Slots : MayStep /\ TryMatchRemove(id, i) /\ Keep
    \/ \E id \in Conns, i \in Slots : MayStep /\ PopWaiting(id, i) /\ Keep
    \/ \E id \in Conns, i \in Slots : MayStep /\ FetchPopped(id, i) /\ Keep
    \/ \E id \in Conns, i \in Slots : MayStep /\ SetPaired(id, i) /\ Keep
    \/ \E id \in Conns, i \in Slots : MayStep /\ EnqueueLRem(id, i) /\ Keep
    \/ \E id \in Conns, i \in Slots : MayStep /\ EnqueueRPush(id, i) /\ Keep
    \/ \E id \in Conns, i \in Slots : MayStep /\ DisconnectRemove(id, i) /\ Keep
    \/ BanSAdd /\ Hist
    \/ BanHSet /\ Hist
    \/ BanClose /\ Hist
    \/ UnbanSRem /\ Hist
    \/ UnbanDel /\ Hist
    \/ Return /\ Forgotten
    \/ \E id \in Conns, i \in Slots :
          request = NoRequest /\ Retire(id, i) /\ snap' = NoSnapshot
             /\ UNCHANGED <<overlaps, failures>> /\ Rest

SpecBan == Init /\ [][NextBan]_vars

\* One handler at a time, on NumInstances instances: connections join and
\* report their partner, and the fifth report against an address bans it.
NextReport ==
    \/ \E id \in Conns : Idle /\ Connect(id) /\ Keep
    \/ \E id \in Conns : Idle /\ Join(id) /\ Recorded
    \/ \E id \in Conns : Idle /\ Disconnect(id) /\ Recorded
    \/ \E id \in Conns, peerId \in Conns \cup {None}, reason \in Reasons :
          Idle /\ TotalReports < MaxReports /\ Report(id, peerId, reason) /\ Recorded
    \/ \E id \in Conns, i \in Slots : MayStep /\ GetPartner(id, i) /\ Keep
    \/ \E id \in Conns, i \in Slots : MayStep /\ ClearPairA(id, i) /\ Keep
    \/ \E id \in Conns, i \in Slots : MayStep /\ ClearPairB(id, i) /\ Keep
    \/ \E id \in Conns, i \in Slots : MayStep /\ FetchPartner(id, i) /\ Keep
    \/ \E id \in Conns, i \in Slots : MayStep /\ TryMatchRemove(id, i) /\ Keep
    \/ \E id \in Conns, i \in Slots : MayStep /\ PopWaiting(id, i) /\ Keep
    \/ \E id \in Conns, i \in Slots : MayStep /\ FetchPopped(id, i) /\ Keep
    \/ \E id \in Conns, i \in Slots : MayStep /\ SetPaired(id, i) /\ Keep
    \/ \E id \in Conns, i \in Slots : MayStep /\ EnqueueLRem(id, i) /\ Keep
    \/ \E id \in Conns, i \in Slots : MayStep /\ EnqueueRPush(id, i) /\ Keep
    \/ \E id \in Conns, i \in Slots : MayStep /\ DisconnectRemove(id, i) /\ Keep
    \/ \E id \in Conns, i \in Slots : MayStep /\ ReportGetPartner(id, i) /\ Keep
    \/ \E id \in Conns, i \in Slots : MayStep /\ ReportFetch(id, i) /\ Keep
    \/ \E id \in Conns, i \in Slots : MayStep /\ ReportRPush(id, i) /\ Hist
    \/ \E id \in Conns, i \in Slots : MayStep /\ ReportLLen(id, i) /\ Hist
    \/ BanSAdd /\ Hist
    \/ BanHSet /\ Hist
    \/ BanClose /\ Hist
    \/ Return /\ Hist
    \/ \E id \in Conns, i \in Slots :
          request = NoRequest /\ Retire(id, i) /\ snap' = NoSnapshot
             /\ UNCHANGED <<overlaps, failures>> /\ Rest

SpecReport == Init /\ [][NextReport]_vars

\* The process of instance inst is replaced by a new one (a deploy or a
\* crash) while it owns no open connection: the new process has an empty
\* Set bannedIPs and `let redisConnected = false`.
Restart(inst) ==
    /\ boot[inst].pc = "up"
    /\ \A c \in sockets : InstanceOf(c) # inst
    /\ boot' = [boot EXCEPT ![inst] =
                  [pc |-> "starting", redisConnected |-> FALSE, found |-> banned_ips]]
    /\ bannedIPs' = [bannedIPs EXCEPT ![inst] = {}]
    /\ UNCHANGED matching
    /\ UNCHANGED <<handlers, banned_ips, ban_details, reports, request>>

\* The module of the new process runs from top to bottom in one turn of the
\* event loop: the connect block starts and suspends at `await
\* Promise.all([pubClient.connect(), subClient.connect()])`, then the block
\* `if (redisConnected) { await loadBannedIPs(); }` tests the flag.
BootModule(inst) ==
    /\ boot[inst].pc = "starting"
    /\ bannedIPs' = [bannedIPs EXCEPT ![inst] =
                       IF boot[inst].redisConnected THEN @ \cup banned_ips ELSE @]
    /\ boot' = [boot EXCEPT ![inst].pc = "connecting"]
    /\ UNCHANGED matching
    /\ UNCHANGED <<handlers, banned_ips, ban_details, reports, request>>

\* The connections to the store are established: the connect block goes on
\* with `redisConnected = true` (as does the ready listener), and start-up
\* has finished.
BootConnected(inst) ==
    /\ boot[inst].pc = "connecting"
    /\ boot' = [boot EXCEPT ![inst] = LongUp]
    /\ UNCHANGED matching
    /\ UNCHANGED <<handlers, banned_ips, ban_details, reports, bannedIPs, request>>

\* Instance inst serves requests.
Up(inst) == boot[inst].pc = "up"

\* The history variables other than boot are left alone.
Booting == UNCHANGED <<snap, overlaps, failures>>

\* Instances that stop and start while an administrator bans and unbans
\* addresses and clients connect; a connection closed by a ban runs its
\* disconnect listener.
NextBoot ==
    \/ \E id \in Conns : Idle /\ Up(InstanceOf(id)) /\ Connect(id) /\ Keep
    \/ \E inst \in Instances, ip \in IPs : Idle /\ Up(inst) /\ AdminBan(inst, ip) /\ Noted
    \/ \E inst \in Instances, ip \in IPs : Idle /\ Up(inst) /\ AdminUnban(inst, ip) /\ Noted
    \/ \E inst \in Instances : Idle /\ Restart(inst) /\ Booting
    \/ \E inst \in Instances : BootModule(inst) /\ Booting
    \/ \E inst \in Instances : BootConnected(inst) /\ Booting
    \/ \E id \in Conns, i \in Slots : MayStep /\ GetPartner(id, i) /\ Keep
    \/ \E id \in Conns, i \in Slots : MayStep /\ DisconnectRemove(id, i) /\ Keep
    \/ BanSAdd /\ Hist
    \/ BanHSet /\ Hist
    \/ BanClose /\ Hist
    \/ UnbanSRem /\ Hist
    \/ UnbanDel /\ Hist
    \/ Return /\ Forgotten
    \/ \E id \in Conns, i \in Slots :
          request = NoRequest /\ Retire(id, i) /\ snap' = NoSnapshot
             /\ UNCHANGED <<overlaps, failures>> /\ Rest

SpecBoot == Init /\ [][NextBoot]_vars

\* The Next button of the browser client: `socket.emit('leave')` followed at
\* once by `socket.emit('join')`.  The server calls both listeners as the
\* packets arrive: each runs up to its `await getPartner(id)`.
ClickNext(id) ==
    /\ status[id] = "open"
    /\ handlers' = [handlers EXCEPT ![id] =
           Append(Append(@, NewHandler("leave", "getPartner")),
                  NewHandler("join", "getPartner"))]
    /\ UNCHANGED <<queue, pairs, sockets, status, now, nextRateLimits, obtainedBy>>

\* All handlers of connection id have completed and are forgotten.
RetireAll(id) ==
    /\ handlers[id] # << >>
    /\ Running(id) = {}
    /\ handlers' = [handlers EXCEPT ![id] = << >>]
    /\ UNCHANGED <<queue, pairs, sockets, status, now, nextRateLimits, obtainedBy>>

\* Clients that join and press Next, one client event at a time: the two
\* handlers that one press starts run concurrently, nothing else overlaps.
NextClient ==
    \/ \E id \in Conns : Quiescent /\ Connect(id) /\ Keep
    \/ \E id \in Conns : Quiescent /\ Join(id) /\ Recorded
    \/ \E id \in Conns : Quiescent /\ ClickNext(id) /\ Recorded
    \/ \E id \in Conns, i \in Slots : GetPartner(id, i) /\ Keep
    \/ \E id \in Conns, i \in Slots : ClearPairA(id, i) /\ Keep
    \/ \E id \in Conns, i \in Slots : ClearPairB(id, i) /\ Keep
    \/ \E id \in Conns, i \in Slots : FetchPartner(id, i) /\ Keep
    \/ \E id \in Conns, i \in Slots : TryMatchRemove(id, i) /\ Keep
    \/ \E id \in Conns, i \in Slots : PopWaiting(id, i) /\ Keep
    \/ \E id \in Conns, i \in Slots : FetchPopped(id, i) /\ Keep
    \/ \E id \in Conns, i \in Slots : SetPaired(id, i) /\ Keep
    \/ \E id \in Conns, i \in Slots : EnqueueLRem(id, i) /\ Keep
    \/ \E id \in Conns, i \in Slots : EnqueueRPush(id, i) /\ Keep
    \/ \E id \in Conns, i \in Slots : LeaveRemove(id, i) /\ Keep
    \/ \E id \in Conns : RetireAll(id) /\ snap' = NoSnapshot /\ UNCHANGED overlaps /\ Rest

SpecClient == Init /\ [][NextClient]_vars

\* The queues handed to popValidWaiting: a run of copies of one id, short or
\* about as long as the cap on attempts, followed by at most MaxTail ids.
RunLengths == (0 .. AroundCap) \cup ((MAX_ATTEMPTS - AroundCap) .. (MAX_ATTEMPTS + AroundCap))
Tails == UNION {[1 .. m -> Conns] : m \in 0 .. MaxTail}
Copies(n, j) == [k \in 1 .. n |-> j]

\* popValidWaiting(c) is about to run, inside the tryMatchNow of a join of the
\* connected c, on a queue led by a run of the id j, which the loop skips
\* (j is c itself or is not connected).
InitPop ==
    \E c \in Conns, connected \in SUBSET Conns, j \in Conns, n \in RunLengths, tail \in Tails :
       /\ c \in connected
       /\ j = c \/ j \notin connected
       /\ queue = Copies(n, j) \o tail
       /\ pairs = [x \in Conns |-> None]
       /\ sockets = connected
       /\ status = [x \in Conns |-> IF x \in connected THEN "open" ELSE "closed"]
       /\ handlers = [x \in Conns |->
             IF x = c THEN << [NewHandler("join", "pv_pop") EXCEPT !.caller = c] >> ELSE << >>]
       /\ now = StartTime
       /\ nextRateLimits = [x \in Conns |-> 0]
       /\ obtainedBy = [x \in Conns |-> {}]
       /\ overlaps = 0
       /\ failures = 0
       /\ banned_ips = {}
       /\ ban_details = {}
       /\ reports = [ip \in IPs \cup {NoIP} |-> 0]
       /\ bannedIPs = [inst \in Instances |-> {}]
       /\ request = NoRequest
       /\ boot = [inst \in Instances |-> LongUp]
       /\ snap = Snapshot

\* popValidWaiting alone, from its first pop to its return.
NextPop ==
    \/ \E id \in Conns, i \in Slots : PopWaiting(id, i) /\ Keep
    \/ \E id \in Conns, i \in Slots : FetchPopped(id, i) /\ Keep

SpecPop == InitPop /\ [][NextPop]_vars

\* ------------------------------------------------------------------ claims
\* The smallest element of a non-empty set of numbers.
Min(S) == CHOOSE k \in S : \A j \in S : k <= j

\* The positions of q that hold a connected waiter other than c.
ValidAt(q, connected, c) == {k \in 1 .. Len(q) : q[k] # c /\ q[k] \in connected}

\* Message m is among the events delivered by handler h.
Delivered(h, m) == \E k \in 1 .. Len(h.out) : h.out[k] = m

\* The handler of connection id, of the given kind, has completed (sequential runs).
Done(id, kind) ==
    /\ handlers[id] # <<>>
    /\ handlers[id][1].kind = kind
    /\ handlers[id][1].pc = "done"

\* C1. Pair symmetry: in every reachable state, whenever the pair registry
\* maps A to B it maps B to A.
PairSymmetry == \A a \in Conns : pairs[a] # None => pairs[pairs[a]] = a

\* C2. Queue exclusivity: in every reachable state no connection id is both an
\* element of the waiting queue and a key of the pair registry.
QueueExclusivity == \A a \in Conns : ~(a \in QueueIds(queue) /\ pairs[a] # None)

\* C3. No self-match: the pair registry never maps a connection id to itself
\* and no connection is delivered a paired event that names itself as the peer.
NoSelfMatch ==
    /\ \A a \in Conns : pairs[a] # a
    /\ \A id \in Conns : \A i \in 1 .. Len(handlers[id]) :
          \A k \in 1 .. Len(handlers[id][i].out) :
             LET m == handlers[id][i].out[k]
             IN  m.type = "paired" => m.peerId # m.to

\* A match step popped its own caller from the queue and skipped it.
SelfSkipped ==
    \E id \in Conns : \E i \in 1 .. Len(handlers[id]) :
       /\ handlers[id][i].pc = "pv_pop"
       /\ handlers[id][i].popped # None
       /\ handlers[id][i].popped = handlers[id][i].caller

\* C4. Between two pushes of a waiting connection W onto the queue, at most one
\* caller's match step obtains W from popValidWaiting.
OneMatcherPerWaiter == \A w \in Conns : Cardinality(obtainedBy[w]) <= 1

\* C5. Dedup: when enqueue(A) returns, that is right after its push of A, A
\* occurs at most once in the waiting queue.
DedupAfterEnqueue ==
    [][\A a \in Conns : Count(queue', a) > Count(queue, a) => Count(queue', a) <= 1]_vars

\* C6. join(C) by an unpaired connection C, run without interleaving: if the
\* queue holds a connected waiter other than C, C is bound to the earliest such
\* waiter W, both are absent from the queue, C is delivered paired with peer W as
\* initiator and W is delivered paired with peer C as non-initiator; otherwise C
\* ends as the single tail entry of the queue and is delivered waiting.
JoinContract ==
    \A c \in Conns : Done(c, "join") /\ snap.pairs[c] = None =>
       LET h == handlers[c][1]
           cand == ValidAt(snap.queue, snap.sockets, c)
       IN  IF cand # {}
           THEN LET w == snap.queue[Min(cand)]
                IN  /\ pairs[c] = w /\ pairs[w] = c
                    /\ c \notin QueueIds(queue) /\ w \notin QueueIds(queue)
                    /\ h.out = << Msg(c, "paired", w, TRUE, NoSignal),
                                  Msg(w, "paired", c, FALSE, NoSignal) >>
           ELSE /\ queue # <<>> /\ queue[Len(queue)] = c /\ Count(queue, c) = 1
                /\ pairs[c] = None
                /\ h.out = << Plain(c, "waiting") >>

\* A join has completed that found two connected waiters in the queue.
JoinChoseEarliest ==
    \E c \in Conns :
       /\ Done(c, "join") /\ snap.pairs[c] = None
       /\ Cardinality(ValidAt(snap.queue, snap.sockets, c)) >= 2

\* An accepted next of A has completed, run without interleaving, that found A
\* paired with a connected B and nobody else in the queue.
NextAlone(a) ==
    /\ Done(a, "next")
    /\ ~InCooldown(snap.now, snap.nextRateLimits[a])
    /\ snap.pairs[a] # None
    /\ snap.pairs[a] \in snap.sockets
    /\ QueueIds(snap.queue) \subseteq {a, snap.pairs[a]}

\* C7 as stated. next(A) while A is paired with B and no other connection is
\* waiting: both are delivered partner-disconnected, B is put in the queue, A is
\* delivered waiting and ends waiting, not paired with B again.
NextAloneWaits ==
    \A a \in Conns : NextAlone(a) =>
       LET h == handlers[a][1]
           b == snap.pairs[a]
       IN  /\ Delivered(h, Plain(a, "partner-disconnected"))
           /\ Delivered(h, Plain(b, "partner-disconnected"))
           /\ b \in QueueIds(queue)
           /\ Delivered(h, Plain(a, "waiting"))
           /\ a \in QueueIds(queue)
           /\ pairs[a] = None

\* C7 as amended. next(A) while A is paired with B and no other connection is
\* waiting: both are delivered partner-disconnected, B is put in the queue and
\* delivered waiting, and A's match attempt pops B: A and B are paired with each
\* other again, A as initiator, and neither is left in the queue.
NextAloneRematches ==
    \A a \in Conns : NextAlone(a) =>
       LET h == handlers[a][1]
           b == snap.pairs[a]
       IN  /\ h.out = << Plain(a, "partner-disconnected"),
                         Plain(b, "partner-disconnected"),
                         Plain(b, "waiting"),
                         Msg(a, "paired", b, TRUE, NoSignal),
                         Msg(b, "paired", a, FALSE, NoSignal) >>
           /\ pairs[a] = b /\ pairs[b] = a
           /\ a \notin QueueIds(queue) /\ b \notin QueueIds(queue)

\* A next of a paired connection has completed with nobody else waiting.
NextAloneCase == \E a \in Conns : NextAlone(a)

\* The disconnect handler of A has completed, run without interleaving, that
\* found A paired with a connected B.
DisconnectPaired(a) ==
    /\ Done(a, "disconnect")
    /\ snap.pairs[a] # None
    /\ snap.pairs[a] \in snap.sockets \ {a}

\* C8. Disconnect of a paired connection A whose partner B is still connected:
\* the pair is dissolved, B is delivered partner-disconnected, nothing is
\* delivered to A, and B is bound to the earliest connected waiter C if there is
\* one (both are delivered paired), otherwise B ends waiting in the queue.
DisconnectContract ==
    \A a \in Conns : DisconnectPaired(a) =>
       LET h == handlers[a][1]
           b == snap.pairs[a]
           cand == ValidAt(snap.queue, snap.sockets \ {a}, b)
       IN  /\ pairs[a] = None
           /\ Delivered(h, Plain(b, "partner-disconnected"))
           /\ \A k \in 1 .. Len(h.out) : h.out[k].to # a
           /\ IF cand # {}
              THEN LET c == snap.queue[Min(cand)]
                   IN  /\ pairs[b] = c /\ pairs[c] = b
                       /\ \E k \in 1 .. Len(h.out) :
                             /\ h.out[k].type = "paired"
                             /\ h.out[k].to = b /\ h.out[k].peerId = c
                       /\ \E k \in 1 .. Len(h.out) :
                             /\ h.out[k].type = "paired"
                             /\ h.out[k].to = c /\ h.out[k].peerId = b
                       /\ b \notin QueueIds(queue) /\ c \notin QueueIds(queue)
              ELSE /\ pairs[b] = None
                   /\ Count(queue, b) = 1
                   /\ Delivered(h, Plain(b, "waiting"))

\* A disconnect has completed whose partner was matched with a waiter.
DisconnectRematched ==
    \E a \in Conns :
       /\ DisconnectPaired(a)
       /\ ValidAt(snap.queue, snap.sockets \ {a}, snap.pairs[a]) # {}

\* C9. Signal relay, run without interleaving: a signal event from C addressed
\* to C' delivers exactly {peer: C, signal}, the signal unchanged, to C' when the
\* handler reaches its check and the pair registry maps C to C' there; otherwise
\* nothing is delivered.  The queue and the pair registry are left unchanged.
SignalContract ==
    \A c \in Conns : Done(c, "signal") =>
       LET h == handlers[c][1]
       IN  /\ h.out = IF SignalWellFormed(h.peerId, h.signal) /\ snap.pairs[c] = h.peerId
                      THEN << Msg(h.peerId, "signal", c, FALSE, h.signal) >>
                      ELSE << >>
           /\ queue = snap.queue
           /\ pairs = snap.pairs

\* A signal has been relayed to the sender's partner.
SignalRelayed ==
    \E c \in Conns : Done(c, "signal") /\ handlers[c][1].out # << >>

\* C10. Per-connection serialization: at most one handler of a connection is in
\* flight at any time.
OneHandlerInFlight == \A id \in Conns : Cardinality(Running(id)) <= 1

\* C15. next rate limit: a next of C at time t is rejected (C is delivered an
\* error; the queue, the pair registry and last_next(C) stay unchanged) exactly
\* when t - last_next(C) < 1000 ms; an accepted next sets last_next(C) = t.
NextRateLimit ==
    \A c \in Conns : Done(c, "next") =>
       LET h == handlers[c][1]
       IN  IF snap.now - snap.nextRateLimits[c] < 1000
           THEN /\ h.out = << Plain(c, "error") >>
                /\ queue = snap.queue
                /\ pairs = snap.pairs
                /\ nextRateLimits = snap.nextRateLimits
           ELSE /\ ~Delivered(h, Plain(c, "error"))
                /\ nextRateLimits[c] = snap.now

\* A next sent 999 ms after the last accepted one has been rejected, and the
\* clock can reach 1000 ms and 1001 ms after it.
NextRejectedAt999 ==
    \E c \in Conns :
       /\ Done(c, "next")
       /\ snap.nextRateLimits[c] > 0
       /\ snap.now - snap.nextRateLimits[c] = 999
       /\ Delivered(handlers[c][1], Plain(c, "error"))

\* A next of C has completed, run without interleaving, that found C waiting:
\* in the queue and without partner.
NextFromWaiting(c) ==
    /\ Done(c, "next")
    /\ c \in QueueIds(snap.queue)
    /\ snap.pairs[c] = None

\* C16. next monotonicity: a next sent by a waiting connection ends with that
\* connection in the queue or in the pair registry, never in neither.
NextMonotone ==
    \A c \in Conns : NextFromWaiting(c) => (c \in QueueIds(queue) \/ pairs[c] # None)

\* A next of a waiting connection has completed and paired it with another waiter.
NextFromWaitingPaired == \E c \in Conns : NextFromWaiting(c) /\ pairs[c] # None

\* The pair registry holds no entry.
NoPairs(p) == \A a \in Conns : p[a] = None

\* A leave of C has completed, run without interleaving, that found the state
\* join(C) produces on an empty system: C alone in the queue and no pair.
LeaveAfterLoneJoin(c) ==
    /\ Done(c, "leave")
    /\ snap.queue = << c >>
    /\ NoPairs(snap.pairs)

\* C18. join/leave round trip: on a system with an empty queue and an empty
\* pair registry, join(C) followed by leave(C) leaves both empty again.
JoinLeaveRoundTrip ==
    \A c \in Conns : LeaveAfterLoneJoin(c) => (queue = << >> /\ NoPairs(pairs))

\* Such a leave has completed and the connection was told so.
LoneLeaveDone ==
    \E c \in Conns : LeaveAfterLoneJoin(c) /\ Delivered(handlers[c][1], Plain(c, "left"))

\* C19. Once all in-flight handlers have completed, no entry of the pair
\* registry has a closed connection as its key or as its value.
PairsOnlyOpen ==
    Quiescent =>
       \A a \in Conns : pairs[a] # None => (status[a] = "open" /\ status[pairs[a]] = "open")

\* C20. bind precondition: whenever setPaired(A, B) executes, neither A nor B
\* has an entry in the pair registry.
BindOnlyUnpaired ==
    [][\A id \in Conns : \A i \in 1 .. Len(handlers[id]) :
          SetPaired(id, i) =>
             /\ pairs[handlers[id][i].caller] = None
             /\ pairs[handlers[id][i].popped] = None]_vars

\* The disconnect cleanup of A has completed, run without interleaving, for a
\* connection that was closed already: its second run.
SecondCleanup(a) == Done(a, "disconnect") /\ a \notin snap.sockets

\* C17. Idempotent cleanup: running the disconnect cleanup of A a second time
\* leaves the queue and the pair registry as the first run left them and
\* delivers no further event.
CleanupIdempotent ==
    \A a \in Conns : SecondCleanup(a) =>
       /\ queue = snap.queue
       /\ pairs = snap.pairs
       /\ handlers[a][1].out = << >>

\* A second cleanup has completed while another connection was waiting.
SecondCleanupDone == \E a \in Conns : SecondCleanup(a) /\ snap.queue # << >>

\* A join, next or leave handler of connection c has completed after one of
\* its shared-store commands was rejected.
FailedIn(c) ==
    /\ \E kind \in {"join", "next", "leave"} : Done(c, kind)
    /\ handlers[c][1].failed # "none"

\* C11: no silent failure.  When a shared-store command (queue remove, pop,
\* push, pair read, write or delete) is rejected during a join, next or leave
\* handler of connection C, C is delivered an error event.
NoSilentFailure ==
    \A c \in Conns : FailedIn(c) => Delivered(handlers[c][1], Plain(c, "error"))

\* C12: admission follows the shared ban set on every instance.  Once no ban
\* or unban is in flight, an admission attempt from ip on any instance is
\* rejected if and only if ip is a member of the shared ban set, whichever
\* instance performed the ban or the unban.
AdmissionFollowsBanSet ==
    [][\A id \in Conns :
          (Idle /\ status[id] = "fresh" /\ status'[id] # "fresh")
             => (status'[id] = "rejected" <=> IPOf(id) \in banned_ips)]_vars

\* The report handler of connection c has completed with report-submitted.
ReportAccepted(c) ==
    /\ Done(c, "report")
    /\ Delivered(handlers[c][1], Plain(c, "report-submitted"))

\* What an accepted report of c against the address x must have done: one
\* record more in the list of x, and x banned exactly when the list has
\* reached the threshold.
Counted(x) ==
    /\ reports[x] = snap.reports[x] + 1
    /\ x \in banned_ips <=> reports[x] >= AUTO_BAN_THRESHOLD

\* C13: auto-ban threshold.  An accepted report against subject IP X bans X
\* exactly when the report list of X has length at least 5 after the report
\* is appended: the first four reports are recorded without a ban and the
\* fifth bans X.
AutoBanThreshold ==
    \A c \in Conns : ReportAccepted(c) => Counted(IPOf(handlers[c][1].peerId))

\* The same for reports against a partner on the reporter's own instance.
LocalAutoBanThreshold ==
    \A c \in Conns :
       (ReportAccepted(c) /\ InstanceOf(handlers[c][1].peerId) = InstanceOf(c))
          => Counted(IPOf(handlers[c][1].peerId))

\* A call of banIP has just completed.
BanCompleted == request.op = "ban" /\ request.pc = "done"

\* C14: ban(ip, reason).  When the ban completes, ip is in the shared ban
\* set and every connection in the cluster whose remote IP equals ip has
\* been delivered banned and then been closed: no open connection from ip
\* remains.
BanClosesAll ==
    BanCompleted =>
       /\ request.ip \in banned_ips
       /\ \A c \in Conns : IPOf(c) = request.ip =>
             /\ status[c] # "open"
             /\ c \in snap.sockets => status[c] = "banned"

\* popValidWaiting(c) has returned to tryMatchNow: with a candidate (the
\* handler is about to call setPaired) or with null (it is about to enqueue c).
Returned(c) ==
    /\ handlers[c] # << >>
    /\ handlers[c][1].pc \in {"tm_setPaired", "enq_lRem"}

\* C21. popValidWaiting(C_self) pops from the head and returns the earliest
\* id that is different from C_self and connected, having removed it and
\* every id ahead of it from the queue; it returns none when the queue runs
\* empty or when 50 ids have been popped without finding one, and it never
\* returns C_self or a disconnected id.
PopValidContract ==
    \A c \in Conns : Returned(c) =>
       LET h == handlers[c][1]
           q == snap.queue
           cand == {k \in ValidAt(q, snap.sockets, c) : k <= MAX_ATTEMPTS}
       IN  IF cand # {}
           THEN /\ h.pc = "tm_setPaired"
                /\ h.popped = q[Min(cand)]
                /\ h.popped # c /\ h.popped \in sockets
                /\ queue = SubSeq(q, Min(cand) + 1, Len(q))
           ELSE /\ h.pc = "enq_lRem"
                /\ queue = IF Len(q) <= MAX_ATTEMPTS THEN << >>
                           ELSE SubSeq(q, MAX_ATTEMPTS + 1, Len(q))

\* popValidWaiting gave up after 50 pops with a connected waiter still queued.
PopGaveUp ==
    \E c \in Conns :
       /\ Returned(c)
       /\ handlers[c][1].pc = "enq_lRem"
       /\ ValidAt(queue, sockets, c) # {}

\* C22. leave(C), run without interleaving: when the handler completes, C is
\* neither in the queue nor in the pair registry and C has been delivered
\* left; if C was paired with P, both C and P have been delivered
\* partner-disconnected, P has no pair entry, and P, if still connected, is in
\* the queue and has been delivered waiting.
LeaveContract ==
    \A c \in Conns : Done(c, "leave") =>
       LET h == handlers[c][1]
           p == snap.pairs[c]
       IN  /\ c \notin QueueIds(queue)
           /\ pairs[c] = None
           /\ Delivered(h, Plain(c, "left"))
           /\ p # None =>
                 /\ Delivered(h, Plain(c, "partner-disconnected"))
                 /\ Delivered(h, Plain(p, "partner-disconnected"))
                 /\ pairs[p] = None
                 /\ p \in sockets =>
                       /\ p \in QueueIds(queue)
                       /\ Delivered(h, Plain(p, "waiting"))

\* A leave of a paired connection has completed.
LeavePairedDone == \E c \in Conns : Done(c, "leave") /\ snap.pairs[c] # None

\* A join of a connection that had a pair entry has completed.
JoinWhilePaired(c) == Done(c, "join") /\ snap.pairs[c] # None

\* C23. join by a connection that has an entry in the pair registry is a
\* no-op: the queue and the pair registry are unchanged and no event
\* (waiting, paired, error) is delivered to any connection.
JoinPairedNoop ==
    \A c \in Conns : JoinWhilePaired(c) =>
       /\ queue = snap.queue
       /\ pairs = snap.pairs
       /\ handlers[c][1].out = << >>

\* A paired connection has sent join while another connection was waiting.
JoinPairedDone == \E c \in Conns : JoinWhilePaired(c) /\ snap.queue # << >>

\* The report that c sent names c's partner at the check and carries a
\* string of 1 to 500 characters as reason.
ReportInOrder(c) ==
    LET h == handlers[c][1]
    IN  /\ h.peerId # None
        /\ snap.pairs[c] = h.peerId
        /\ h.reason.isString
        /\ h.reason.length \in 1 .. 500

BootLoadsBans ==
    [][\A inst \in Instances :
          (boot[inst].pc = "connecting" /\ boot'[inst].pc = "up")
             => \A ip \in boot[inst].found \cap banned_ips' : ip \in bannedIPs'[inst]]_vars

\* A call of unbanIP has just completed.
UnbanCompleted == request.op = "unban" /\ request.pc = "done"

\* C26. unban(ip) removes ip from the shared ban set and its metadata and
\* from the executing instance's cache and changes nothing else: no existing
\* connection is closed or notified, and the queue, the pair registry and the
\* report log are unchanged.
UnbanFrame ==
    UnbanCompleted =>
       /\ banned_ips = snap.banned_ips \ {request.ip}
       /\ ban_details = snap.ban_details \ {request.ip}
       /\ bannedIPs = [snap.bannedIPs EXCEPT ![request.inst] = @ \ {request.ip}]
       /\ sockets = snap.sockets
       /\ \A c \in Conns : handlers[c] = << >>
       /\ queue = snap.queue
       /\ pairs = snap.pairs
       /\ reports = snap.reports

\* An address has been unbanned while a connection from it was open and
\* another address was banned.
UnbanWithOpenConn ==
    /\ UnbanCompleted
    /\ request.ip \in snap.banned_ips
    /\ snap.banned_ips # {request.ip}
    /\ \E c \in sockets : IPOf(c) = request.ip

\* The leave and the join of one press of Next by c, sent while c was
\* paired, have both completed.
PressedNext(c) ==
    /\ Len(handlers[c]) = 2
    /\ handlers[c][1].kind = "leave" /\ handlers[c][1].pc = "done"
    /\ handlers[c][2].kind = "join" /\ handlers[c][2].pc = "done"
    /\ snap.pairs[c] # None

\* C27. Client Next sequence: when a paired connection C sends leave
\* immediately followed by join, then once both handlers have completed C is
\* waiting in the queue or paired, not idle: the join is not swallowed as a
\* no-op because the leave had not yet dissolved the old pair.
ClientNextRequeues ==
    \A c \in Conns : PressedNext(c) => (c \in QueueIds(queue) \/ pairs[c] # None)

\* C28. No two live waiters left unmatched: whenever no handler is in flight,
\* the waiting queue contains at most one connected connection (an operation
\* that queues a connected connection while another one is waiting, the
\* requeue of the partner on next or leave included, ends with the two matched).
AtMostOneLiveWaiter ==
    Quiescent => Cardinality(QueueIds(queue) \cap sockets) <= 1

\* The step in which handler i of id finishes clearPair and the
\* partner-disconnected message for its partnerId is delivered.
Notifies(id, i) ==
    /\ i <= Len(handlers[id]) /\ i <= Len(handlers'[id])
    /\ handlers[id][i].pc = "cp_hDelB"
    /\ handlers'[id][i].pc = "fetchPartner"
    /\ Delivered(handlers'[id][i], Plain(handlers[id][i].partnerId, "partner-disconnected"))

\* C29. partner-disconnected is delivered to a connection X only as part of a
\* dissolution that removed X's own pair entry with the connection that acted:
\* when a next, leave or disconnect handler of id notifies its partnerId, the
\* pair entry it deletes for partnerId is the one that names id.
NotifiedOnOwnDissolution ==
    [][\A id \in Conns : \A i \in 1 .. MaxInFlight :
          Notifies(id, i) => pairs[handlers[id][i].partnerId] = id]_vars

\* C29, second clause on its own: a connection whose current pairing is with a
\* different, still-paired partner is never notified through a stale partner id.
StillPairedNeverNotified ==
    [][\A id \in Conns : \A i \in 1 .. MaxInFlight :
          Notifies(id, i) =>
              LET x == handlers[id][i].partnerId
              IN  ~(pairs[x] # None /\ pairs[x] # id /\ pairs[pairs[x]] = x)]_vars
====
